---- MODULE Spec2Model ----
(***************************************************************************)
(* HRMS Lite API (src/main.py): the Employee and Attendance tables of the  *)
(* SQLite store and the request handlers that read and write them.  Every  *)
(* handler runs in its own worker thread with its own Session, so the      *)
(* statements of different requests interleave; a statement is one step.   *)
(* SELECTs run outside any transaction (pysqlite opens one only before a   *)
(* DML statement), so every SELECT sees the latest committed tables.       *)
(* Strings are sequences of one-character strings, dates are day numbers.  *)
(***************************************************************************)
EXTENDS Integers, Sequences, FiniteSets, TLC

\* Bounds of the model.
MaxRequests == 2
NumSlots == 2

Slots == 1..NumSlots

VARIABLES
    employees,   \* committed rows of table "employees"
    attendance,  \* committed rows of table "attendance"
    req,         \* per worker slot: the request it is running
    sessions,    \* slots whose Session (get_db) is open
    dbLock,      \* slot holding SQLite's write lock, 0 when free
    nSubmitted,  \* requests received since start-up
    nCreated,    \* create-employee requests answered 201, over all runs
    nDeleted     \* delete-employee requests answered 204, over all runs

vars == <<employees, attendance, req, sessions, dbLock, nSubmitted, nCreated, nDeleted>>

----------------------------------------------------------------------------
\* Inputs

PathIds == {1, 2}
Dates == {1, 2}

\* Request bodies of POST /api/employees: four valid ones (two of them with
\* the same employee_id once trimmed, two pairs with the same email) and one
\* failing each validator.
EmployeeBodies ==
    {[employee_id |-> <<" ", "E", "1">>, full_name |-> <<"A", " ">>,
      email |-> "a@x.io", department |-> <<"D">>],
     [employee_id |-> <<"E", "1">>, full_name |-> <<"B">>,
      email |-> "b@x.io", department |-> <<"D">>],
     [employee_id |-> <<"E", "2">>, full_name |-> <<"A", " ">>,
      email |-> "a@x.io", department |-> <<"D">>],
     [employee_id |-> <<"E", "2">>, full_name |-> <<"B">>,
      email |-> "b@x.io", department |-> <<" ", "D">>],
     [employee_id |-> <<" ">>, full_name |-> <<"B">>,
      email |-> "b@x.io", department |-> <<"D">>],
     [employee_id |-> <<"E", "2">>, full_name |-> <<" ">>,
      email |-> "b@x.io", department |-> <<"D">>],
     [employee_id |-> <<"E", "2">>, full_name |-> <<"B">>,
      email |-> "b@x.io", department |-> <<>>],
     [employee_id |-> <<"E", "2">>, full_name |-> <<"B">>,
      email |-> "not-an-email", department |-> <<"D">>]}

AttendanceBodies ==
    [employee_id : PathIds, date : Dates, status : {"Present", "Absent"}]
    \cup {[employee_id |-> 1, date |-> 1, status |-> "Late"]}

\* Optional[int] query parameter: absent, or an integer.
Filters == {[given |-> FALSE, value |-> 0]} \cup [given : {TRUE}, value : {0, 1, 2}]

----------------------------------------------------------------------------
\* Pure helpers

RECURSIVE lstrip(_)
lstrip(v) == IF v # <<>> /\ Head(v) = " " THEN lstrip(Tail(v)) ELSE v

RECURSIVE rstrip(_)
rstrip(v) == IF v # <<>> /\ v[Len(v)] = " " THEN rstrip(SubSeq(v, 1, Len(v) - 1)) ELSE v

\* str.strip()
strip(v) == rstrip(lstrip(v))

validate_employee_id_nostrip(v) ==
    IF v = <<>> \/ strip(v) = <<>> THEN [ok |-> FALSE, value |-> v]
    ELSE [ok |-> TRUE, value |-> v]

validate_employee_id(v) ==
    IF v = <<>> \/ strip(v) = <<>> THEN [ok |-> FALSE, value |-> v]
    ELSE [ok |-> TRUE, value |-> strip(v)]

validate_full_name(v) ==
    IF v = <<>> \/ strip(v) = <<>> THEN [ok |-> FALSE, value |-> v]
    ELSE [ok |-> TRUE, value |-> strip(v)]

validate_department(v) ==
    IF v = <<>> \/ strip(v) = <<>> THEN [ok |-> FALSE, value |-> v]
    ELSE [ok |-> TRUE, value |-> strip(v)]

\* email: EmailStr
EmailStr(v) == v \in {"a@x.io", "b@x.io"}

validate_status(v) == v \in {"Present", "Absent"}

\* The validated EmployeeCreate model of a request body.
EmployeeCreate(b) ==
    LET i == validate_employee_id(b.employee_id)
        n == validate_full_name(b.full_name)
        d == validate_department(b.department)
    IN [ok |-> i.ok /\ n.ok /\ d.ok /\ EmailStr(b.email),
        value |-> [employee_id |-> i.value, full_name |-> n.value,
                   email |-> b.email, department |-> d.value]]

AttendanceCreate(b) == [ok |-> validate_status(b.status), value |-> b]

SetMax(S) == CHOOSE x \in S : \A y \in S : y <= x

Ids(rows) == {r.id : r \in rows}

NextRowId_count(rows) == Cardinality(rows) + 1

\* id = Column(Integer, primary_key=True): SQLite's rowid, one more than the
\* largest rowid in the table.
NextRowId(rows) == IF rows = {} THEN 1 ELSE SetMax(Ids(rows)) + 1

UniqueViolation_off(emps, row) == FALSE

\* unique=True on employees.employee_id and employees.email.
UniqueViolation(emps, row) ==
    \E e \in emps : e.employee_id = row.employee_id \/ e.email = row.email

\* db.query(Employee).filter(Employee.id == id).first()
EmployeeById(emps, id) == {e \in emps : e.id = id}

EmployeeByEmployeeId(emps, eid) == {e \in emps : e.employee_id = eid}

EmployeeByEmail(emps, email) == {e \in emps : e.email = email}

AttendanceOf(att, id) == {a \in att : a.employee_id = id}

AttendanceOn(att, id, d) == {a \in att : a.employee_id = id /\ a.date = d}

----------------------------------------------------------------------------
\* Requests

NoValue == [none |-> TRUE]

IdleReq == [kind |-> "idle", pc |-> "idle", body |-> NoValue,
            local |-> NoValue, result |-> [status |-> 0]]

\* The store is the file hrms.db, which outlives the process: at start-up the
\* tables hold what earlier runs committed.  Two such stores: a new file, and
\* one where employees 1 and 2 were created and each marked once on day 1.
StoresAtStartup ==
    {[employees |-> {}, attendance |-> {}],
     [employees |->
        {[id |-> 1, employee_id |-> <<"E", "1">>, full_name |-> <<"A">>,
          email |-> "a@x.io", department |-> <<"D">>],
         [id |-> 2, employee_id |-> <<"E", "2">>, full_name |-> <<"B">>,
          email |-> "b@x.io", department |-> <<"D">>]},
      attendance |->
        {[id |-> 1, employee_id |-> 1, date |-> 1, status |-> "Present"],
         [id |-> 2, employee_id |-> 2, date |-> 1, status |-> "Absent"]}]}

Init ==
    /\ \E store \in StoresAtStartup :
          /\ employees = store.employees
          /\ attendance = store.attendance
          /\ nCreated = Cardinality(store.employees)
    /\ req = [s \in Slots |-> IdleReq]
    /\ sessions = {}
    /\ dbLock = 0
    /\ nSubmitted = 0
    /\ nDeleted = 0

Goto(s, pc) == req' = [req EXCEPT ![s].pc = pc]

GotoWith(s, pc, local) == req' = [req EXCEPT ![s].pc = pc, ![s].local = local]

\* The handler returns or raises: the response is decided.
Exit(s, res) == req' = [req EXCEPT ![s].pc = "exit", ![s].result = res]

HTTPException(code, detail) == [status |-> code, detail |-> detail]

At(s, kind, pc) == req[s].kind = kind /\ req[s].pc = pc

\* A request arrives and is given to the first free worker: get_db opens the
\* Session, the body is validated, and the handler is entered at `first`
\* unless validation fails (422).
Receive(s, kind, body, valid, first) ==
    /\ req[s].kind = "idle"
    /\ \A t \in Slots : t < s => req[t].kind # "idle"
    /\ nSubmitted < MaxRequests
    /\ nSubmitted' = nSubmitted + 1
    /\ sessions' = sessions \cup {s}
    /\ req' = [req EXCEPT ![s] =
                 [kind |-> kind, pc |-> IF valid THEN first ELSE "exit",
                  body |-> body, local |-> NoValue,
                  result |-> IF valid THEN [status |-> 0]
                             ELSE HTTPException(422, "validation")]]
    /\ UNCHANGED <<employees, attendance, dbLock, nCreated, nDeleted>>

----------------------------------------------------------------------------
\* POST /api/employees

Emp(s) == EmployeeCreate(req[s].body).value

ReceiveCreateEmployee(s, b) ==
    Receive(s, "create_employee", b, EmployeeCreate(b).ok, "check_id")

create_employee_check_id(s) ==
    /\ At(s, "create_employee", "check_id")
    /\ IF EmployeeByEmployeeId(employees, Emp(s).employee_id) # {}
       THEN Exit(s, HTTPException(400, "Employee ID already exists"))
       ELSE Goto(s, "check_email")
    /\ UNCHANGED <<employees, attendance, sessions, dbLock, nSubmitted, nCreated, nDeleted>>

create_employee_check_email(s) ==
    /\ At(s, "create_employee", "check_email")
    /\ IF EmployeeByEmail(employees, Emp(s).email) # {}
       THEN Exit(s, HTTPException(400, "Email already exists"))
       ELSE Goto(s, "commit")
    /\ UNCHANGED <<employees, attendance, sessions, dbLock, nSubmitted, nCreated, nDeleted>>

\* db.add(db_employee); db.commit(): BEGIN, INSERT, COMMIT.  The INSERT waits
\* for the write lock (a delete holds it only between two of its statements,
\* far less than SQLite's busy timeout) and fails on a unique constraint
\* (IntegrityError).
create_employee_commit(s) ==
    /\ At(s, "create_employee", "commit")
    /\ dbLock = 0
    /\ LET e == Emp(s)
           row == [id |-> NextRowId(employees), employee_id |-> e.employee_id,
                   full_name |-> e.full_name, email |-> e.email,
                   department |-> e.department]
       IN IF UniqueViolation(employees, row)
          THEN /\ Exit(s, HTTPException(500, "IntegrityError"))
               /\ UNCHANGED employees
          ELSE /\ employees' = employees \cup {row}
               /\ GotoWith(s, "refresh", [id |-> row.id])
    /\ UNCHANGED <<attendance, sessions, dbLock, nSubmitted, nCreated, nDeleted>>

\* db.refresh(db_employee); return db_employee
create_employee_refresh(s) ==
    /\ At(s, "create_employee", "refresh")
    /\ LET found == EmployeeById(employees, req[s].local.id)
       IN IF found = {}
          THEN /\ Exit(s, HTTPException(500, "InvalidRequestError"))
               /\ UNCHANGED nCreated
          ELSE /\ Exit(s, [status |-> 201, body |-> CHOOSE e \in found : TRUE])
               /\ nCreated' = nCreated + 1
    /\ UNCHANGED <<employees, attendance, sessions, dbLock, nSubmitted, nDeleted>>

----------------------------------------------------------------------------
\* GET /api/employees/{employee_id}

ReceiveGetEmployee(s, id) == Receive(s, "get_employee", [id |-> id], TRUE, "query")

get_employee(s) ==
    /\ At(s, "get_employee", "query")
    /\ LET found == EmployeeById(employees, req[s].body.id)
       IN IF found = {}
          THEN Exit(s, HTTPException(404, "Employee not found"))
          ELSE Exit(s, [status |-> 200, body |-> CHOOSE e \in found : TRUE])
    /\ UNCHANGED <<employees, attendance, sessions, dbLock, nSubmitted, nCreated, nDeleted>>

----------------------------------------------------------------------------
\* DELETE /api/employees/{employee_id}

ReceiveDeleteEmployee(s, id) ==
    Receive(s, "delete_employee", [id |-> id], TRUE, "lookup")

delete_employee_lookup(s) ==
    /\ At(s, "delete_employee", "lookup")
    /\ IF EmployeeById(employees, req[s].body.id) = {}
       THEN Exit(s, HTTPException(404, "Employee not found"))
       ELSE Goto(s, "delete_attendance")
    /\ UNCHANGED <<employees, attendance, sessions, dbLock, nSubmitted, nCreated, nDeleted>>

delete_employee_delete_attendance_autocommit(s) ==
    /\ At(s, "delete_employee", "delete_attendance")
    /\ dbLock = 0
    /\ attendance' = attendance \ AttendanceOf(attendance, req[s].body.id)
    /\ GotoWith(s, "commit", [deleted |-> {}])
    /\ UNCHANGED <<employees, sessions, dbLock, nSubmitted, nCreated, nDeleted>>

\* db.query(Attendance).filter(...).delete(): BEGIN and DELETE inside the
\* Session's transaction.  The statement takes the write lock; the rows stay
\* visible to every other connection until COMMIT.
delete_employee_delete_attendance(s) ==
    /\ At(s, "delete_employee", "delete_attendance")
    /\ dbLock = 0
    /\ dbLock' = s
    /\ GotoWith(s, "commit", [deleted |-> AttendanceOf(attendance, req[s].body.id)])
    /\ UNCHANGED <<employees, attendance, sessions, nSubmitted, nCreated, nDeleted>>

\* db.delete(employee); db.commit(): DELETE FROM employees WHERE id = ?, then
\* COMMIT.  A DELETE that matches no row is a warning, not an error.
delete_employee_commit(s) ==
    /\ At(s, "delete_employee", "commit")
    /\ dbLock = s
    /\ attendance' = attendance \ req[s].local.deleted
    /\ employees' = employees \ EmployeeById(employees, req[s].body.id)
    /\ dbLock' = 0
    /\ nDeleted' = nDeleted + 1
    /\ Exit(s, [status |-> 204])
    /\ UNCHANGED <<sessions, nSubmitted, nCreated>>

----------------------------------------------------------------------------
\* POST /api/attendance

ReceiveCreateAttendance(s, b) ==
    Receive(s, "create_attendance", b, AttendanceCreate(b).ok, "lookup")

\* Optional[str]: the empty set is None.
AttendanceResponse(record, found) ==
    [id |-> record.id, employee_id |-> record.employee_id, date |-> record.date,
     status |-> record.status,
     employee_name |-> {e.full_name : e \in found},
     employee_employee_id |-> {e.employee_id : e \in found}]

create_attendance_lookup_unchecked(s) ==
    /\ At(s, "create_attendance", "lookup")
    /\ GotoWith(s, "check_dup",
                [employee |-> EmployeeById(employees, req[s].body.employee_id)])
    /\ UNCHANGED <<employees, attendance, sessions, dbLock, nSubmitted, nCreated, nDeleted>>

create_attendance_lookup(s) ==
    /\ At(s, "create_attendance", "lookup")
    /\ LET found == EmployeeById(employees, req[s].body.employee_id)
       IN IF found = {}
          THEN Exit(s, HTTPException(404, "Employee not found"))
          ELSE GotoWith(s, "check_dup", [employee |-> found])
    /\ UNCHANGED <<employees, attendance, sessions, dbLock, nSubmitted, nCreated, nDeleted>>

create_attendance_check_dup(s) ==
    /\ At(s, "create_attendance", "check_dup")
    /\ IF AttendanceOn(attendance, req[s].body.employee_id, req[s].body.date) # {}
       THEN Exit(s, HTTPException(400, "Attendance already marked for this date"))
       ELSE Goto(s, "commit")
    /\ UNCHANGED <<employees, attendance, sessions, dbLock, nSubmitted, nCreated, nDeleted>>

\* db.add(db_attendance); db.commit().  The table has no unique constraint,
\* and SQLite does not enforce the foreign key (PRAGMA foreign_keys is off).
create_attendance_commit(s) ==
    /\ At(s, "create_attendance", "commit")
    /\ dbLock = 0
    /\ LET row == [id |-> NextRowId(attendance),
                   employee_id |-> req[s].body.employee_id,
                   date |-> req[s].body.date, status |-> req[s].body.status]
       IN /\ attendance' = attendance \cup {row}
          /\ req' = [req EXCEPT ![s].pc = "refresh",
                                ![s].local = [employee |-> req[s].local.employee,
                                              id |-> row.id]]
    /\ UNCHANGED <<employees, sessions, dbLock, nSubmitted, nCreated, nDeleted>>

\* db.refresh(db_attendance), then the response is built from it and from
\* the Employee read at the start.
create_attendance_refresh(s) ==
    /\ At(s, "create_attendance", "refresh")
    /\ LET found == {a \in attendance : a.id = req[s].local.id}
       IN IF found = {}
          THEN Exit(s, HTTPException(500, "InvalidRequestError"))
          ELSE Exit(s, [status |-> 201,
                        body |-> AttendanceResponse(CHOOSE a \in found : TRUE,
                                                    req[s].local.employee)])
    /\ UNCHANGED <<employees, attendance, sessions, dbLock, nSubmitted, nCreated, nDeleted>>

----------------------------------------------------------------------------
\* GET /api/attendance

ReceiveGetAttendance(s, f) ==
    Receive(s, "get_attendance", [employee_id |-> f], TRUE, "query")

\* Python truth of an Optional[int]: None and 0 are false.
Truthy(f) == f.given /\ f.value # 0

\* query = db.query(Attendance); if employee_id: query = query.filter(...)
Filtered(att, f) == IF Truthy(f) THEN AttendanceOf(att, f.value) ELSE att

\* order_by(Attendance.date.desc()).all(): any order of the rows with dates
\* descending; rows of one date come in an order the store chooses.
OrderByDateDesc(rows) ==
    {q \in [1..Cardinality(rows) -> rows] :
        /\ \A i, j \in DOMAIN q : i < j => q[i] # q[j] /\ q[i].date >= q[j].date}

get_attendance_query(s) ==
    /\ At(s, "get_attendance", "query")
    /\ \E records \in OrderByDateDesc(Filtered(attendance, req[s].body.employee_id)) :
          IF records = <<>>
          THEN Exit(s, [status |-> 200, body |-> <<>>])
          ELSE GotoWith(s, "enrich", [records |-> records, out |-> <<>>])
    /\ UNCHANGED <<employees, attendance, sessions, dbLock, nSubmitted, nCreated, nDeleted>>

\* One iteration of the loop: the record's Employee is looked up and the
\* response entry appended; after the last one the list is returned.
get_attendance_enrich(s) ==
    /\ At(s, "get_attendance", "enrich")
    /\ LET l == req[s].local
           record == l.records[Len(l.out) + 1]
           out == Append(l.out,
                         AttendanceResponse(record, EmployeeById(employees, record.employee_id)))
       IN IF Len(out) = Len(l.records)
          THEN Exit(s, [status |-> 200, body |-> out])
          ELSE GotoWith(s, "enrich", [records |-> l.records, out |-> out])
    /\ UNCHANGED <<employees, attendance, sessions, dbLock, nSubmitted, nCreated, nDeleted>>

----------------------------------------------------------------------------
\* GET /api/stats

ReceiveGetStats(s) == Receive(s, "get_stats", NoValue, TRUE, "count_employees")

\* db.query(Employee).all(): SQLite scans the table in rowid order.
RECURSIVE AllById(_)
AllById(rows) ==
    IF rows = {} THEN <<>>
    ELSE LET first == CHOOSE r \in rows : \A o \in rows : r.id <= o.id
         IN <<first>> \o AllById(rows \ {first})

PresentDays_any_status(att, id) == Cardinality(AttendanceOf(att, id))

PresentDays(att, id) ==
    Cardinality({a \in att : a.employee_id = id /\ a.status = "Present"})

get_stats_count_employees(s) ==
    /\ At(s, "get_stats", "count_employees")
    /\ GotoWith(s, "count_attendance", [total_employees |-> Cardinality(employees)])
    /\ UNCHANGED <<employees, attendance, sessions, dbLock, nSubmitted, nCreated, nDeleted>>

get_stats_count_attendance(s) ==
    /\ At(s, "get_stats", "count_attendance")
    /\ GotoWith(s, "count_present",
                [total_employees |-> req[s].local.total_employees,
                 total_attendance |-> Cardinality(attendance)])
    /\ UNCHANGED <<employees, attendance, sessions, dbLock, nSubmitted, nCreated, nDeleted>>

get_stats_count_present(s) ==
    /\ At(s, "get_stats", "count_present")
    /\ GotoWith(s, "all_employees",
                [total_employees |-> req[s].local.total_employees,
                 total_attendance |-> req[s].local.total_attendance,
                 present_count |-> Cardinality({a \in attendance : a.status = "Present"})])
    /\ UNCHANGED <<employees, attendance, sessions, dbLock, nSubmitted, nCreated, nDeleted>>

StatsResponse(l, employee_stats) ==
    [status |-> 200,
     body |-> [total_employees |-> l.total_employees,
               total_attendance_records |-> l.total_attendance,
               total_present |-> l.present_count,
               employee_stats |-> employee_stats]]

get_stats_all_employees(s) ==
    /\ At(s, "get_stats", "all_employees")
    /\ LET l == req[s].local
           emps == AllById(employees)
       IN IF emps = <<>>
          THEN Exit(s, StatsResponse(l, <<>>))
          ELSE GotoWith(s, "present_days",
                        [total_employees |-> l.total_employees,
                         total_attendance |-> l.total_attendance,
                         present_count |-> l.present_count,
                         employees |-> emps, employee_stats |-> <<>>])
    /\ UNCHANGED <<employees, attendance, sessions, dbLock, nSubmitted, nCreated, nDeleted>>

\* One iteration of `for emp in employees`; after the last one the report
\* is returned.
get_stats_present_days(s) ==
    /\ At(s, "get_stats", "present_days")
    /\ LET l == req[s].local
           emp == l.employees[Len(l.employee_stats) + 1]
           stats == Append(l.employee_stats,
                           [employee_id |-> emp.employee_id,
                            employee_name |-> emp.full_name,
                            present_days |-> PresentDays(attendance, emp.id)])
       IN IF Len(stats) = Len(l.employees)
          THEN Exit(s, StatsResponse(l, stats))
          ELSE GotoWith(s, "present_days", [l EXCEPT !.employee_stats = stats])
    /\ UNCHANGED <<employees, attendance, sessions, dbLock, nSubmitted, nCreated, nDeleted>>

----------------------------------------------------------------------------
\* get_db: the Session is closed when the request is over.

get_db_close_on_success(s) ==
    /\ req[s].pc = "exit"
    /\ sessions' = IF req[s].result.status < 400 THEN sessions \ {s} ELSE sessions
    /\ req' = [req EXCEPT ![s] = IdleReq]
    /\ UNCHANGED <<employees, attendance, dbLock, nSubmitted, nCreated, nDeleted>>

\* finally: db.close()
get_db_close(s) ==
    /\ req[s].pc = "exit"
    /\ sessions' = sessions \ {s}
    /\ req' = [req EXCEPT ![s] = IdleReq]
    /\ UNCHANGED <<employees, attendance, dbLock, nSubmitted, nCreated, nDeleted>>

----------------------------------------------------------------------------

Handler(s) ==
    \/ create_employee_check_id(s)
    \/ create_employee_check_email(s)
    \/ create_employee_commit(s)
    \/ create_employee_refresh(s)
    \/ get_employee(s)
    \/ delete_employee_lookup(s)
    \/ delete_employee_delete_attendance(s)
    \/ delete_employee_commit(s)
    \/ create_attendance_lookup(s)
    \/ create_attendance_check_dup(s)
    \/ create_attendance_commit(s)
    \/ create_attendance_refresh(s)
    \/ get_attendance_query(s)
    \/ get_attendance_enrich(s)
    \/ get_stats_count_employees(s)
    \/ get_stats_count_attendance(s)
    \/ get_stats_count_present(s)
    \/ get_stats_all_employees(s)
    \/ get_stats_present_days(s)
    \/ get_db_close(s)

Next ==
    \/ \E s \in Slots, b \in EmployeeBodies : ReceiveCreateEmployee(s, b)
    \/ \E s \in Slots, id \in PathIds : ReceiveGetEmployee(s, id)
    \/ \E s \in Slots, id \in PathIds : ReceiveDeleteEmployee(s, id)
    \/ \E s \in Slots, b \in AttendanceBodies : ReceiveCreateAttendance(s, b)
    \/ \E s \in Slots, f \in Filters : ReceiveGetAttendance(s, f)
    \/ \E s \in Slots : ReceiveGetStats(s)
    \/ \E s \in Slots : Handler(s)

Spec == Init /\ [][Next]_vars

\* Every worker thread that has a request keeps running it.
FairSpec == Spec /\ \A s \in Slots : WF_vars(Handler(s))

\* One request at a time: the next arrives when the last one is over.
AllIdle == \A s \in Slots : req[s].kind = "idle"

SeqNext ==
    \/ \E s \in Slots, b \in EmployeeBodies : AllIdle /\ ReceiveCreateEmployee(s, b)
    \/ \E s \in Slots, id \in PathIds : AllIdle /\ ReceiveGetEmployee(s, id)
    \/ \E s \in Slots, id \in PathIds : AllIdle /\ ReceiveDeleteEmployee(s, id)
    \/ \E s \in Slots, b \in AttendanceBodies : AllIdle /\ ReceiveCreateAttendance(s, b)
    \/ \E s \in Slots, f \in Filters : AllIdle /\ ReceiveGetAttendance(s, f)
    \/ \E s \in Slots : AllIdle /\ ReceiveGetStats(s)
    \/ \E s \in Slots : Handler(s)

SeqSpec == Init /\ [][SeqNext]_vars

----------------------------------------------------------------------------
\* Properties

\* Slot s takes a step of its request.
Steps(s) == req'[s] # req[s]

\* The body's employee_id, once trimmed, or its email is that of a stored row.
Clash(body, emps) ==
    \E e \in emps : e.employee_id = strip(body.employee_id) \/ e.email = body.email

\* C1: in every reachable state no two Employee rows share employee_id and
\* no two share email, whatever the interleaving of the requests.
UniqueEmployees ==
    \A e1, e2 \in employees :
        e1 # e2 => e1.employee_id # e2.employee_id /\ e1.email # e2.email

\* Two concurrent creates of the same employee: one row is stored and the
\* other request fails at commit on the unique constraint.
UniqueEmployeesWitness ==
    \E s \in Slots :
        /\ req[s].kind = "create_employee" /\ req[s].pc = "exit"
        /\ req[s].result = HTTPException(500, "IntegrityError")
        /\ \E e \in employees : e.employee_id = Emp(s).employee_id

\* C2: in every reachable state at most one Attendance row exists for any
\* (employee_id, date) pair, also when create-attendance requests interleave.
OneMarkPerDay ==
    \A a, b \in attendance :
        a # b => ~(a.employee_id = b.employee_id /\ a.date = b.date)

\* C3: in every reachable state every Attendance row's employee_id is the id
\* of an Employee row, whatever the interleaving of delete-employee and
\* create-attendance.
NoOrphanAttendance ==
    \A a \in attendance : EmployeeById(employees, a.employee_id) # {}

\* C4: the delete cascade is one commit.  In every step, for every id: if the
\* Employee row with that id goes, no Attendance row of that id is left, and
\* if an Attendance row of that id goes, the Employee row is gone as well; so
\* no committed state has one half of the cascade without the other.
DeleteCascadeAtomic ==
    [][\A id \in Ids(employees) \cup {a.employee_id : a \in attendance} :
          /\ (EmployeeById(employees, id) # {} /\ EmployeeById(employees', id) = {})
                => AttendanceOf(attendance', id) = {}
          /\ ~(AttendanceOf(attendance, id) \subseteq attendance')
                => EmployeeById(employees', id) = {}]_vars

\* A delete has committed, removing the employee's Attendance rows, while
\* a list-attendance request was in the middle of its reads.
DeleteCascadeWitness ==
    \E s, t \in Slots :
        /\ req[s].kind = "delete_employee" /\ req[s].pc = "exit"
        /\ req[s].result.status = 204
        /\ req[s].local.deleted # {}
        /\ EmployeeById(employees, req[s].body.id) = {}
        /\ req[t].kind = "get_attendance" /\ req[t].pc = "enrich"

\* C5: whenever a create-employee request takes a step of its checks or its
\* commit while its trimmed employee_id or its email is that of a stored
\* row, the step stores nothing and does not lead to success: the request
\* goes on to a later check or is rejected.
DuplicateEmployeeRejected ==
    [][\A s \in Slots :
          (/\ req[s].kind = "create_employee"
           /\ req[s].pc \in {"check_id", "check_email", "commit"}
           /\ Steps(s)
           /\ Clash(req[s].body, employees))
          => /\ employees' = employees
             /\ req'[s].pc \in {"check_email", "commit", "exit"}
             /\ req'[s].pc = "exit" => req'[s].result.status >= 400
             /\ req[s].pc = "commit" => req'[s].pc = "exit"]_vars

\* A body whose employee_id needs trimming is rejected as a duplicate id.
DuplicateEmployeeWitness ==
    \E s \in Slots :
        /\ req[s].kind = "create_employee" /\ req[s].pc = "exit"
        /\ req[s].result = HTTPException(400, "Employee ID already exists")
        /\ strip(req[s].body.employee_id) # req[s].body.employee_id
        /\ Clash(req[s].body, employees)

\* What create-employee and get-employee answer, seen when the request is over.
CreatedEmployeeAnswer ==
    \A s \in Slots :
        /\ (req[s].kind = "create_employee" /\ req[s].pc = "exit") =>
              IF req[s].result.status = 201
              THEN LET row == req[s].result.body
                   IN /\ row \in employees
                      /\ \A e \in employees : e.id = row.id => e = row
                      /\ row.employee_id = strip(req[s].body.employee_id)
                      /\ row.full_name = strip(req[s].body.full_name)
                      /\ row.email = req[s].body.email
                      /\ row.department = strip(req[s].body.department)
              ELSE \/ ~EmployeeCreate(req[s].body).ok
                   \/ Clash(req[s].body, employees)
        /\ (req[s].kind = "get_employee" /\ req[s].pc = "exit") =>
              IF req[s].result.status = 200
              THEN req[s].result.body \in employees
                   /\ req[s].result.body.id = req[s].body.id
              ELSE EmployeeById(employees, req[s].body.id) = {}

EmployeeRowsKept ==
    \A row \in employees :
        \/ row \in employees'
        \/ \E s \in Slots :
              /\ At(s, "delete_employee", "commit")
              /\ req[s].body.id = row.id
              /\ req'[s].pc = "exit"

\* C6, with one request at a time: a create-employee request that is over
\* either was answered 201 with a stored row that has the body's validated
\* fields and an id no other row has, or its body was invalid or in use;
\* a get-employee answers with the stored row of that id, 404 only when
\* there is none; and a stored row stays as it is until a delete-employee
\* of its id commits.
CreatedEmployeeRetrievable == []CreatedEmployeeAnswer /\ [][EmployeeRowsKept]_vars

\* A create-employee was answered 201 for a body that needed trimming.
CreatedEmployeeWitness ==
    \E s \in Slots :
        /\ req[s].kind = "create_employee" /\ req[s].pc = "exit"
        /\ req[s].result.status = 201
        /\ req[s].result.body \in employees
        /\ strip(req[s].body.employee_id) # req[s].body.employee_id

\* C7: a create-attendance request that looks up an employee_id no Employee
\* row has is answered 404 by that very step, before the duplicate-mark
\* check is made, and the step stores no Attendance row.
UnknownEmployeeRejected ==
    [][\A s \in Slots :
          (/\ At(s, "create_attendance", "lookup")
           /\ Steps(s)
           /\ EmployeeById(employees, req[s].body.employee_id) = {})
          => /\ req'[s].pc = "exit"
             /\ req'[s].result = HTTPException(404, "Employee not found")
             /\ attendance' = attendance]_vars

\* A create-attendance for an employee that does not exist was answered 404.
UnknownEmployeeWitness ==
    \E s \in Slots :
        /\ req[s].kind = "create_attendance" /\ req[s].pc = "exit"
        /\ req[s].result = HTTPException(404, "Employee not found")
        /\ EmployeeById(employees, req[s].body.employee_id) = {}

\* C8, with one request at a time: for every integer given as the
\* employee_id filter of list-attendance, 0 included, the answer is 200 and
\* its records are exactly the Attendance rows with that employee_id.
FilterReturnsExactlyThatEmployee ==
    \A s \in Slots :
        (/\ req[s].kind = "get_attendance" /\ req[s].pc = "exit"
         /\ req[s].body.employee_id.given)
        => /\ req[s].result.status = 200
           /\ {req[s].result.body[i].id : i \in DOMAIN req[s].result.body}
                 = Ids(AttendanceOf(attendance, req[s].body.employee_id.value))
           /\ \A i \in DOMAIN req[s].result.body :
                 req[s].result.body[i].employee_id = req[s].body.employee_id.value

\* C9, with one request at a time: a stats answer has total_employees equal
\* to the creates answered 201 minus the deletes answered 204, and exactly
\* one employee_stats entry per Employee row, whose present_days is the
\* number of that employee's Attendance rows with status "Present".
StatsCorrect ==
    \A s \in Slots :
        (req[s].kind = "get_stats" /\ req[s].pc = "exit") =>
            LET r == req[s].result.body
            IN /\ r.total_employees = nCreated - nDeleted
               /\ Len(r.employee_stats) = Cardinality(employees)
               /\ \A e \in employees :
                     \E i \in DOMAIN r.employee_stats :
                        /\ r.employee_stats[i].employee_id = e.employee_id
                        /\ r.employee_stats[i].employee_name = e.full_name
                        /\ r.employee_stats[i].present_days =
                              Cardinality({a \in attendance :
                                  a.employee_id = e.id /\ a.status = "Present"})

\* Stats answered after a delete-employee, with an employee left that has
\* an Attendance row but no "Present" one.
StatsWitness ==
    \E s \in Slots :
        /\ req[s].kind = "get_stats" /\ req[s].pc = "exit"
        /\ nSubmitted = 2
        /\ nCreated + nDeleted > Cardinality(employees)
        /\ \E i \in DOMAIN req[s].result.body.employee_stats :
              req[s].result.body.employee_stats[i].present_days = 0
        /\ \E a \in attendance : a.status = "Absent"

\* C10: a slot with no request has no open Session, and every open Session
\* is eventually closed, whichever way its request ends.
SessionReleased ==
    /\ [](\A s \in Slots : req[s].kind = "idle" => s \notin sessions)
    /\ \A s \in Slots : (s \in sessions) ~> (s \notin sessions)

\* A request has ended with a store failure raised at commit and its
\* Session is still open, about to be closed.
SessionReleasedWitness ==
    \E s \in Slots :
        /\ req[s].pc = "exit"
        /\ req[s].result = HTTPException(500, "IntegrityError")
        /\ s \in sessions

====
